---- MODULE Spec2Model ----
(***************************************************************************)
(* A model of resources/lib/api/website.py (plugin.video.netflix): the     *)
(* parsing of the Netflix web page into session data, profiles, parental   *)
(* control levels and login errors, and the writes it makes to the local   *)
(* database, the shared database and the add-on settings.                  *)
(*                                                                         *)
(* JSON values are tagged records: Map (dict), Str, Num, Bool, List and    *)
(* None.  A call that raises is a record [exc |-> <exception name>].       *)
(***************************************************************************)
EXTENDS Integers, Sequences, FiniteSets, TLC

VARIABLES
    session,            \* g.LOCAL_DB, table TABLE_SESSION: key -> value
    appconf,            \* g.LOCAL_DB, default table: key -> value
    profiles,           \* g.LOCAL_DB profiles: guid -> [is_active, sort_order, config]
    shared,             \* g.SHARED_DB profiles: guid -> sort_order
    addon,              \* g.ADDON settings: key -> value
    monitor_suspended,  \* g.settings_monitor_suspend state
    call                \* the call in progress or the last call made, with its outcome

vars == <<session, appconf, profiles, shared, addon, monitor_suspended, call>>

--------------------------------------------------------------------------
(* JSON values and Python primitives                                       *)

Map(f) == [kind |-> "map", m |-> f]
Str(s) == [kind |-> "str", s |-> s]
Num(n) == [kind |-> "num", n |-> n]
Bool(b) == [kind |-> "bool", b |-> b]
List(q) == [kind |-> "list", q |-> q]
None == [kind |-> "none"]
NoBlock == [kind |-> "noblock"]
EmptyMap == [k \in {} |-> None]

Ok(v) == [exc |-> "none", v |-> v]
Raise(e) == [exc |-> e]
IsOk(r) == r.exc = "none"

\* dict.get(key): the value, or None when the key is absent
DictGet(d, key) == IF key \in DOMAIN d THEN d[key] ELSE None

\* d.update({key: value})
DictPut(d, key, value) == [k \in DOMAIN d \cup {key} |-> IF k = key THEN value ELSE d[k]]

\* Python truthiness of a value
Truthy(v) ==
    CASE v.kind = "none" -> FALSE
      [] v.kind = "str" -> v.s # ""
      [] v.kind = "num" -> v.n # 0
      [] v.kind = "bool" -> v.b
      [] v.kind = "list" -> v.q # <<>>
      [] v.kind = "map" -> DOMAIN v.m # {}
      [] OTHER -> TRUE

\* len(v): TypeError for a value that has no length
PyLen(v) ==
    CASE v.kind = "str" -> Ok(Len(v.s))
      [] v.kind = "list" -> Ok(Len(v.q))
      [] v.kind = "map" -> Ok(Cardinality(DOMAIN v.m))
      [] OTHER -> Raise("TypeError")

\* container[key] with a string key
PyGetItem(v, key) ==
    CASE v.kind = "map" -> IF key \in DOMAIN v.m THEN Ok(v.m[key]) ELSE Raise("KeyError")
      [] OTHER -> Raise("TypeError")

\* sub in s, for strings
Contains(s, sub) ==
    \E i \in 1..(Len(s) - Len(sub) + 1) : SubSeq(s, i, i + Len(sub) - 1) = sub

RECURSIVE SplitFrom(_, _, _, _)
SplitFrom(s, sep, i, start) ==
    IF i > Len(s) THEN <<SubSeq(s, start, Len(s))>>
    ELSE IF SubSeq(s, i, i) = sep
         THEN <<SubSeq(s, start, i - 1)>> \o SplitFrom(s, sep, i + 1, i + 1)
         ELSE SplitFrom(s, sep, i + 1, start)

\* s.split(sep) for a one-character separator
Split(s, sep) == SplitFrom(s, sep, 1, 1)

--------------------------------------------------------------------------
(* common.get_path, common.check_path_exists                               *)

RECURSIVE get_path(_, _)
get_path(path, search_space) ==
    LET current == PyGetItem(search_space, Head(path))
    IN  IF ~IsOk(current) THEN current
        ELSE IF Len(path) = 1 THEN current
        ELSE get_path(Tail(path), current.v)

check_path_exists(path, search_space) == IsOk(get_path(path, search_space))

--------------------------------------------------------------------------
(* Module constants                                                        *)

PAGE_ITEMS_INFO ==
    << "models/userInfo/data/name",
       "models/userInfo/data/guid",
       "models/userInfo/data/userGuid",
       "models/userInfo/data/countryOfSignup",
       "models/userInfo/data/membershipStatus",
       "models/userInfo/data/isTestAccount",
       "models/userInfo/data/deviceTypeId",
       "models/userInfo/data/isAdultVerified",
       "models/userInfo/data/isKids",
       "models/userInfo/data/pinEnabled",
       "models/serverDefs/data/BUILD_IDENTIFIER",
       "models/esnGeneratorModel/data/esn",
       "models/memberContext/data/geo/preferredLocale" >>

PAGE_ITEMS_API_URL ==
    << <<"auth_url", "models/userInfo/data/authURL">>,
       <<"api_endpoint_root_url", "models/serverDefs/data/API_ROOT">>,
       <<"api_endpoint_url", "models/playerModel/data/config/ui/initParams/apiUrl">>,
       <<"request_id", "models/serverDefs/data/requestId">>,
       <<"asset_core", "models/playerModel/data/config/core/assets/core">>,
       <<"ui_version", "models/playerModel/data/config/ui/initParams/uiVersion">>,
       <<"browser_info_version", "models/browserInfo/data/version">>,
       <<"browser_info_os_name", "models/browserInfo/data/os/name">>,
       <<"browser_info_os_version", "models/browserInfo/data/os/version">> >>

PAGE_ITEM_ERROR_CODE == "models/flow/data/fields/errorCode/value"
PAGE_ITEM_ERROR_CODE_LIST == "models\\i18nStrings\\data\\login/login"

AUTH_URL_LENGTH == 42

\* the split paths, computed once
InfoPaths == [i \in DOMAIN PAGE_ITEMS_INFO |-> Split(PAGE_ITEMS_INFO[i], "/")]
ApiPaths == [i \in DOMAIN PAGE_ITEMS_API_URL |-> Split(PAGE_ITEMS_API_URL[i][2], "/")]
ApiKeys == [i \in DOMAIN PAGE_ITEMS_API_URL |-> PAGE_ITEMS_API_URL[i][1]]

\* the exceptions the two extraction loops catch
ExtractCaught == {"AttributeError", "KeyError"}

--------------------------------------------------------------------------
(* extract_userdata, extract_api_data, assert_valid_auth_url               *)

RECURSIVE extract_userdata_from(_, _, _)
extract_userdata_from(react_context, i, user_data) ==
    IF i > Len(InfoPaths) THEN Ok(user_data)
    ELSE LET path == InfoPaths[i]
             got == get_path(path, react_context)
         IN  IF IsOk(got)
             THEN extract_userdata_from(react_context, i + 1,
                                        DictPut(user_data, path[Len(path)], got.v))
             ELSE IF got.exc \in ExtractCaught
             THEN extract_userdata_from(react_context, i + 1, user_data)
             ELSE got

extract_userdata(react_context) == extract_userdata_from(react_context, 1, EmptyMap)

\* an authURL of any length is taken
accept_auth_url(user_data) == Ok(user_data)

assert_valid_auth_url(user_data) ==
    LET n == PyLen(IF "auth_url" \in DOMAIN user_data THEN user_data["auth_url"] ELSE Str(""))
    IN  IF ~IsOk(n) THEN n
        ELSE IF n.v # AUTH_URL_LENGTH THEN Raise("InvalidAuthURLError")
        ELSE Ok(user_data)

RECURSIVE extract_api_data_from(_, _, _)
extract_api_data_from(react_context, i, api_data) ==
    IF i > Len(ApiPaths) THEN assert_valid_auth_url(api_data)
    ELSE LET got == get_path(ApiPaths[i], react_context)
         IN  IF IsOk(got)
             THEN extract_api_data_from(react_context, i + 1,
                                        DictPut(api_data, ApiKeys[i], got.v))
             ELSE IF got.exc \in ExtractCaught
             THEN extract_api_data_from(react_context, i + 1, api_data)
             ELSE got

extract_api_data(react_context) == extract_api_data_from(react_context, 1, EmptyMap)

--------------------------------------------------------------------------
(* Pages: the reactContext of a fully populated page, and edits of it      *)

AUTH_URL_OK == "1621000000000.AbCdEfGhIjKlMnOpQrStUvWxYz0="
AUTH_URL_SHORT == "1621000000000.AbCdEfGhIjKlMnOpQrStUvWxYz="
AUTH_URL_LONG == "1621000000000.AbCdEfGhIjKlMnOpQrStUvWxYz01="

FullReact ==
    Map([models |-> Map([
        userInfo |-> Map([data |-> Map([
            name |-> Str("Ann"),
            guid |-> Str("A"),
            userGuid |-> Str("A"),
            countryOfSignup |-> Str("IT"),
            membershipStatus |-> Str("CURRENT_MEMBER"),
            isTestAccount |-> Bool(FALSE),
            deviceTypeId |-> Num(1),
            isAdultVerified |-> Bool(FALSE),
            isKids |-> Bool(FALSE),
            pinEnabled |-> Bool(FALSE),
            authURL |-> Str(AUTH_URL_OK)])]),
        serverDefs |-> Map([data |-> Map([
            BUILD_IDENTIFIER |-> Str("v1a2b3c4"),
            API_ROOT |-> Str("https://www.netflix.com/api"),
            requestId |-> Str("req-1")])]),
        esnGeneratorModel |-> Map([data |-> Map([esn |-> Str("NFCDCH-02-PAGE")])]),
        memberContext |-> Map([data |-> Map([
            geo |-> Map([preferredLocale |-> Map([id |-> Str("it-IT")])])])]),
        playerModel |-> Map([data |-> Map([config |-> Map([
            ui |-> Map([initParams |-> Map([
                apiUrl |-> Str("https://www.netflix.com/api/shakti"),
                uiVersion |-> Str("v1a2b3c4")])]),
            core |-> Map([assets |-> Map([core |-> Str("/cadmium.js")])])])])]),
        browserInfo |-> Map([data |-> Map([
            version |-> Str("80"),
            os |-> Map([name |-> Str("linux"), version |-> Str("5")])])]),
        profileGateState |-> Map([data |-> Num(0)])])])

\* tree with the value at path replaced by node (intermediate dicts are created)
RECURSIVE SetPath(_, _, _)
SetPath(tree, path, node) ==
    LET key == Head(path)
        d == IF tree.kind = "map" THEN tree.m ELSE EmptyMap
    IN  IF Len(path) = 1 THEN Map(DictPut(d, key, node))
        ELSE Map(DictPut(d, key,
                 SetPath(IF key \in DOMAIN d THEN d[key] ELSE Map(EmptyMap), Tail(path), node)))

\* tree without the key at path
RECURSIVE DelPath(_, _)
DelPath(tree, path) ==
    LET key == Head(path)
    IN  IF tree.kind # "map" \/ key \notin DOMAIN tree.m THEN tree
        ELSE IF Len(path) = 1 THEN Map([k \in DOMAIN tree.m \ {key} |-> tree.m[k]])
        ELSE Map(DictPut(tree.m, key, DelPath(tree.m[key], Tail(path))))

Put(path, node) == [op |-> "set", path |-> path, node |-> node]
Del(path) == [op |-> "del", path |-> path]

RECURSIVE ApplyEdits(_, _)
ApplyEdits(tree, edits) ==
    IF edits = <<>> THEN tree
    ELSE LET e == Head(edits)
         IN  ApplyEdits(IF e.op = "set" THEN SetPath(tree, e.path, e.node)
                        ELSE DelPath(tree, e.path), Tail(edits))

PathAuthURL == <<"models", "userInfo", "data", "authURL">>
PathStatus == <<"models", "userInfo", "data", "membershipStatus">>

\* the authURL of the page: valid, one short, one long, absent, not a string
AuthEdits ==
    { <<>>,
      <<Put(PathAuthURL, Str(AUTH_URL_SHORT))>>,
      <<Put(PathAuthURL, Str(AUTH_URL_LONG))>>,
      <<Del(PathAuthURL)>>,
      <<Put(PathAuthURL, Num(42))>> }

\* the membership status of the page
StatusEdits ==
    { <<>>,
      <<Put(PathStatus, Str("ANONYMOUS"))>>,
      <<Put(PathStatus, Str("NEVER_MEMBER"))>>,
      <<Del(PathStatus)>> }

\* pages whose structure changed: missing segments and nodes of another shape
UserInfoEdits ==
    { <<>>,
      <<Del(<<"models", "userInfo">>)>>,
      <<Put(<<"models", "userInfo", "data">>, Str("n/a"))>>,
      <<Put(<<"models", "userInfo", "data">>, List(<<Str("A")>>))>> }

PlayerEdits ==
    { <<>>,
      <<Del(<<"models", "playerModel">>)>>,
      <<Del(<<"models", "playerModel", "data", "config", "ui">>)>>,
      <<Put(<<"models", "playerModel", "data">>, Num(0))>> }

BrowserEdits ==
    { <<>>,
      <<Del(<<"models", "browserInfo", "data", "os">>)>>,
      <<Put(<<"models", "browserInfo", "data", "os">>, List(<<Str("linux"), Str("5")>>))>> }

ServerEdits ==
    { <<>>,
      <<Del(<<"models", "serverDefs", "data", "BUILD_IDENTIFIER">>)>>,
      <<Put(<<"models", "serverDefs">>, None)>> }

ExtractContexts ==
    { ApplyEdits(FullReact, a \o s \o u \o p \o b \o d) :
        a \in AuthEdits, s \in StatusEdits, u \in UserInfoEdits,
        p \in PlayerEdits, b \in BrowserEdits, d \in ServerEdits }

--------------------------------------------------------------------------
(* Stores as the add-on finds them at its first start                      *)

FreshStores ==
    /\ session = EmptyMap
    /\ appconf = EmptyMap
    /\ profiles = EmptyMap
    /\ shared = EmptyMap
    /\ addon = [autoselect_profile_name |-> "", autoselect_profile_enabled |-> FALSE,
                library_playback_profile |-> ""]
    /\ monitor_suspended = FALSE

stores == <<session, appconf, profiles, shared, addon, monitor_suspended>>

--------------------------------------------------------------------------
(* The two extractors applied to a page                                    *)

InitExtract ==
    /\ FreshStores
    /\ call \in [op : {"extract_userdata", "extract_api_data"}, phase : {"called"},
                 react_context : ExtractContexts]

ExtractUserdata ==
    /\ call.op = "extract_userdata" /\ call.phase = "called"
    /\ call' = [op |-> call.op, phase |-> "done", react_context |-> call.react_context,
                result |-> extract_userdata(call.react_context)]
    /\ UNCHANGED stores

ExtractApiData ==
    /\ call.op = "extract_api_data" /\ call.phase = "called"
    /\ call' = [op |-> call.op, phase |-> "done", react_context |-> call.react_context,
                result |-> extract_api_data(call.react_context)]
    /\ UNCHANGED stores

NextExtract == ExtractUserdata \/ ExtractApiData

SpecExtract == InitExtract /\ [][NextExtract]_vars

\* the output keys whose declared path can be traversed in the page
TraversableInfoKeys(react_context) ==
    { InfoPaths[i][Len(InfoPaths[i])] :
        i \in { j \in DOMAIN InfoPaths : check_path_exists(InfoPaths[j], react_context) } }

TraversableApiKeys(react_context) ==
    { ApiKeys[i] :
        i \in { j \in DOMAIN ApiPaths : check_path_exists(ApiPaths[j], react_context) } }

\* C8: extract_userdata and extract_api_data skip every declared path that cannot
\* be traversed, whether a segment is missing or a node has the wrong shape; the
\* mapping returned holds exactly the traversable keys, and extract_api_data
\* raises nothing but InvalidAuthURLError.
C8_UntraversablePathsSkipped ==
    call.phase = "done" =>
        /\ call.op = "extract_userdata" =>
              /\ IsOk(call.result)
              /\ DOMAIN call.result.v = TraversableInfoKeys(call.react_context)
        /\ call.op = "extract_api_data" =>
              /\ call.result.exc \in {"none", "InvalidAuthURLError"}
              /\ IsOk(call.result) =>
                    DOMAIN call.result.v = TraversableApiKeys(call.react_context)

\* the part of C8 the code does keep: a path with a missing segment is skipped
C8_MissingSegmentsSkipped ==
    (call.phase = "done" /\ call.result.exc \in {"none", "InvalidAuthURLError"}) =>
        /\ (call.op = "extract_userdata" =>
              DOMAIN call.result.v = TraversableInfoKeys(call.react_context))
        /\ (call.op = "extract_api_data" /\ IsOk(call.result) =>
              DOMAIN call.result.v = TraversableApiKeys(call.react_context))

--------------------------------------------------------------------------
(* validate_login                                                          *)

\* common.get_local_string(30102), the prefix of the default description
LOCAL_STRING_30102 == "Login error: "

PATHS_WRONG_MSG ==
    "Something is wrong in PAGE_ITEM_ERROR_CODE or PAGE_ITEM_ERROR_CODE_LIST paths."
    \o "react_context data may have changed."

PathErrorCode == Split(PAGE_ITEM_ERROR_CODE, "/")
PathCodeList == Split(PAGE_ITEM_ERROR_CODE_LIST, "\\")

\* the end of the first tag that opens at i: the first ">" after it, 0 if none
TagEnd(s, i) ==
    LET ends == { j \in (i + 1)..Len(s) : SubSeq(s, j, j) = ">" }
    IN  IF ends = {} THEN 0 ELSE CHOOSE j \in ends : \A k \in ends : j <= k

RECURSIVE StripTagsFrom(_, _)
StripTagsFrom(s, i) ==
    IF i > Len(s) THEN ""
    ELSE IF SubSeq(s, i, i) = "<" /\ TagEnd(s, i) # 0
         THEN StripTagsFrom(s, TagEnd(s, i) + 1)
         ELSE SubSeq(s, i, i) \o StripTagsFrom(s, i + 1)

\* common.remove_html_tags
remove_html_tags(v) == IF v.kind = "str" THEN Ok(StripTagsFrom(v.s, 1)) ELSE Raise("TypeError")

\* key in container
PyIn(key, container) ==
    CASE container.kind = "map" -> Ok(key \in DOMAIN container.m)
      [] container.kind = "str" -> Ok(Contains(container.s, key))
      [] container.kind = "list" ->
            Ok(\E i \in DOMAIN container.q : container.q[i] = Str(key))
      [] OTHER -> Raise("TypeError")

\* one "if key in error_code_list: error_description = error_code_list[key]"
description_override(description, key, error_code_list) ==
    IF ~IsOk(description) THEN description
    ELSE LET found == PyIn(key, error_code_list)
         IN  IF ~IsOk(found) THEN found
             ELSE IF found.v THEN PyGetItem(error_code_list, key)
             ELSE description

\* the description with login_ overriding plain and email_ overriding login_
error_description_email_last(error_code, error_code_list) ==
    description_override(
        description_override(
            description_override(Ok(Str(LOCAL_STRING_30102 \o error_code)),
                                 error_code, error_code_list),
            "login_" \o error_code, error_code_list),
        "email_" \o error_code, error_code_list)

\* the description of an error code: the default, overridden by the plain key,
\* then by the email_ key, then by the login_ key
error_description_of(error_code, error_code_list) ==
    description_override(
        description_override(
            description_override(Ok(Str(LOCAL_STRING_30102 \o error_code)),
                                 error_code, error_code_list),
            "email_" \o error_code, error_code_list),
        "login_" \o error_code, error_code_list)

\* the body of the try block, once the error code path is known to exist
validate_login_try(react_context) ==
    LET error_code_list == get_path(PathCodeList, react_context)
        error_code == get_path(PathErrorCode, react_context)
    IN  IF ~IsOk(error_code_list) THEN error_code_list
        ELSE IF ~IsOk(error_code) THEN error_code
        ELSE IF error_code.v.kind # "str" THEN Raise("TypeError")
        ELSE LET description == error_description_of(error_code.v.s, error_code_list.v)
                 message == IF IsOk(description) THEN remove_html_tags(description.v)
                            ELSE description
             IN  IF ~IsOk(message) THEN message
                 ELSE IF Contains(error_code.v.s, "incorrect_password")
                 THEN [exc |-> "LoginValidateErrorIncorrectPassword", msg |-> message.v]
                 ELSE [exc |-> "LoginValidateError", msg |-> message.v]

validate_login(react_context) ==
    IF check_path_exists(PathErrorCode, react_context)
    THEN LET r == validate_login_try(react_context)
         IN  IF r.exc \in {"AttributeError", "KeyError"}
             THEN [exc |-> "LoginValidateError", msg |-> PATHS_WRONG_MSG]
             ELSE r
    ELSE Ok(None)

--------------------------------------------------------------------------
(* Login pages                                                             *)

ErrorCodes ==
    {"incorrect_password", "incorrect_password_generic", "unrecognized_email",
     "throttling", "email_bounced"}

KeyPrefixes == {"", "email_", "login_"}

\* the translation of a key of the table
Translation(key) == Str("<b>" \o key \o "</b>: please <i>try</i> again")

\* a translation table with the keys of error_code under the given prefixes
CodeTable(error_code, prefixes) ==
    Map([k \in { p \o error_code : p \in prefixes } \cup {"login_other"} |-> Translation(k)])

PathTable == <<"models", "i18nStrings", "data", "login/login">>
PathFlowCode == <<"models", "flow", "data", "fields", "errorCode", "value">>

TableEdits(error_code) ==
    { <<Put(PathTable, CodeTable(error_code, ps))>> : ps \in SUBSET KeyPrefixes }
    \cup { <<>>,
           <<Put(<<"models", "i18nStrings", "data">>, Map(EmptyMap))>>,
           <<Put(<<"models", "i18nStrings">>, Str("n/a"))>> }

LoginContexts ==
    UNION { { ApplyEdits(FullReact, <<Put(PathFlowCode, Str(c))>> \o t) : t \in TableEdits(c) }
            : c \in ErrorCodes }
    \cup { ApplyEdits(FullReact, e \o t) :
             e \in { <<>>,
                     <<Put(<<"models", "flow", "data", "fields">>, Map(EmptyMap))>>,
                     <<Put(<<"models", "flow", "data", "fields">>, Str("n/a"))>>,
                     <<Put(<<"models", "flow", "data", "fields", "errorCode">>, Map(EmptyMap))>> },
             t \in TableEdits("incorrect_password") }

InitLogin ==
    /\ FreshStores
    /\ call \in [op : {"validate_login"}, phase : {"called"}, react_context : LoginContexts]

ValidateLogin ==
    /\ call.op = "validate_login" /\ call.phase = "called"
    /\ call' = [op |-> call.op, phase |-> "done", react_context |-> call.react_context,
                result |-> validate_login(call.react_context)]
    /\ UNCHANGED stores

NextLogin == ValidateLogin

SpecLogin == InitLogin /\ [][NextLogin]_vars

\* what the page holds at the error code path and at the table path
PageErrorCode(react_context) == get_path(PathFlowCode, react_context)
PageTable(react_context) == get_path(PathTable, react_context)

\* the entry the priority rule picks in a table that is a mapping: login_ over
\* email_ over plain, and the default built from the code when none is there
PickedEntry(code, table) ==
    IF ("login_" \o code) \in DOMAIN table THEN table["login_" \o code]
    ELSE IF ("email_" \o code) \in DOMAIN table THEN table["email_" \o code]
    ELSE IF code \in DOMAIN table THEN table[code]
    ELSE Str(LOCAL_STRING_30102 \o code)

LoginKind(code) ==
    IF Contains(code, "incorrect_password") THEN "LoginValidateErrorIncorrectPassword"
    ELSE "LoginValidateError"

\* C10 as stated: validate_login returns iff no error code is at the path; with
\* an error code it raises the incorrect-password kind exactly when the code
\* contains "incorrect_password", the generic kind otherwise, carrying the
\* picked table entry (tags removed).
C10_Original ==
    (call.op = "validate_login" /\ call.phase = "done") =>
        LET code == PageErrorCode(call.react_context)
            table == PageTable(call.react_context)
        IN  /\ IsOk(call.result) <=> ~IsOk(code)
            /\ IsOk(code) =>
                  /\ call.result.exc = LoginKind(code.v.s)
                  /\ IsOk(table) /\ table.v.kind = "map" =>
                        call.result.msg = remove_html_tags(PickedEntry(code.v.s, table.v.m)).v

\* C10 amended: the kind follows the code and the message the table only when the
\* table path leads to a mapping; when a segment of the table path is missing the
\* call raises the generic kind with the fixed "paths are wrong" message, and when
\* the table path runs into a node that is no mapping the call still fails.
C10_LoginErrorKinds ==
    (call.op = "validate_login" /\ call.phase = "done") =>
        LET code == PageErrorCode(call.react_context)
            table == PageTable(call.react_context)
        IN  /\ IsOk(call.result) <=> ~IsOk(code)
            /\ (IsOk(code) /\ IsOk(table) /\ table.v.kind = "map") =>
                  /\ call.result.exc = LoginKind(code.v.s)
                  /\ call.result.msg = remove_html_tags(PickedEntry(code.v.s, table.v.m)).v
            /\ (IsOk(code) /\ table.exc = "KeyError") =>
                  /\ call.result.exc = "LoginValidateError"
                  /\ call.result.msg = PATHS_WRONG_MSG

\* a login page with an incorrect-password code whose table holds all three keys
C10_Witness ==
    /\ call.op = "validate_login" /\ call.phase = "done"
    /\ call.result.exc = "LoginValidateErrorIncorrectPassword"
    /\ call.result.msg = "login_incorrect_password: please try again"
    /\ {"incorrect_password", "email_incorrect_password"}
          \subseteq DOMAIN PageTable(call.react_context).v.m

--------------------------------------------------------------------------
(* extract_json, parse_html, extract_parental_control_data                 *)

\* a page is the embedded JSON blocks found in it, parsed; NoBlock stands for a
\* block the page does not hold or that cannot be repaired into JSON
extract_json(content, name) ==
    IF content[name].kind = "noblock" THEN Raise("WebsiteParsingError")
    ELSE Ok(content[name])

HTML_ENTITIES ==
    << <<"&amp;", "&">>, <<"&lt;", "<">>, <<"&gt;", ">">>, <<"&quot;", "\"">> >>

\* the entities of HTML_ENTITIES that start at position i of s
EntitiesAt(s, i) ==
    { e \in DOMAIN HTML_ENTITIES :
        /\ i + Len(HTML_ENTITIES[e][1]) - 1 <= Len(s)
        /\ SubSeq(s, i, i + Len(HTML_ENTITIES[e][1]) - 1) = HTML_ENTITIES[e][1] }

RECURSIVE UnescapeFrom(_, _)
UnescapeFrom(s, i) ==
    IF i > Len(s) THEN ""
    ELSE IF EntitiesAt(s, i) # {}
         THEN LET e == CHOOSE x \in EntitiesAt(s, i) : TRUE
              IN  HTML_ENTITIES[e][2] \o UnescapeFrom(s, i + Len(HTML_ENTITIES[e][1]))
         ELSE SubSeq(s, i, i) \o UnescapeFrom(s, i + 1)

\* HTMLParser().unescape(html_value)
parse_html(html_value) ==
    IF html_value.kind = "str" THEN Ok(Str(UnescapeFrom(html_value.s, 1)))
    ELSE Raise("TypeError")

Digits == <<"0", "1", "2", "3", "4", "5", "6", "7", "8", "9">>
DigitValue(c) == (CHOOSE d \in DOMAIN Digits : Digits[d] = c) - 1
IsDigit(c) == \E d \in DOMAIN Digits : Digits[d] = c

RECURSIVE ParseDigits(_, _, _)
ParseDigits(s, i, acc) ==
    IF i > Len(s) THEN acc
    ELSE ParseDigits(s, i + 1, 10 * acc + DigitValue(SubSeq(s, i, i)))

\* int(v)
PyInt(v) ==
    CASE v.kind = "num" -> Ok(v.n)
      [] v.kind = "bool" -> Ok(IF v.b THEN 1 ELSE 0)
      [] v.kind = "str" ->
            IF v.s # "" /\ \A i \in 1..Len(v.s) : IsDigit(SubSeq(v.s, i, i))
            THEN Ok(ParseDigits(v.s, 1, 0)) ELSE Raise("ValueError")
      [] OTHER -> Raise("TypeError")

\* sequence[0]
PyFirst(v) ==
    CASE v.kind = "list" -> IF v.q = <<>> THEN Raise("IndexError") ELSE Ok(v.q[1])
      [] v.kind = "str" -> IF v.s = "" THEN Raise("IndexError") ELSE Ok(Str(SubSeq(v.s, 1, 1)))
      [] v.kind = "map" -> Raise("KeyError")
      [] OTHER -> Raise("TypeError")

PathCountryMax == <<"models", "parentalControls", "data", "accountProps", "countryMaxMaturity">>
PathRatingLevels == <<"models", "memberContext", "data", "userInfo", "ratingLevels">>

\* the value of every level: its own, converted
level_value_own(index, levels_count, rating_level, max_maturity) ==
    LET level == PyGetItem(rating_level, "level")
        n == IF IsOk(level) THEN PyInt(level.v) ELSE level
    IN  IF IsOk(n) THEN Ok(Num(n.v)) ELSE n

\* the value of the level at index: the country max maturity for the last level
level_value_of(index, levels_count, rating_level, max_maturity) ==
    IF index = levels_count THEN Ok(max_maturity)
    ELSE LET level == PyGetItem(rating_level, "level")
             n == IF IsOk(level) THEN PyInt(level.v) ELSE level
         IN  IF IsOk(n) THEN Ok(Num(n.v)) ELSE n

\* the dict appended for one rating level
rating_level_entry(index, levels_count, rating_level, max_maturity) ==
    LET value == level_value_of(index, levels_count, rating_level, max_maturity)
        labels == PyGetItem(rating_level, "labels")
        first == IF IsOk(labels) THEN PyFirst(labels.v) ELSE labels
        label == IF IsOk(first) THEN PyGetItem(first.v, "label") ELSE first
        raw == IF IsOk(first) THEN PyGetItem(first.v, "description") ELSE first
        description == IF IsOk(raw) THEN parse_html(raw.v) ELSE raw
    IN  IF ~IsOk(value) THEN value
        ELSE IF ~IsOk(label) THEN label
        ELSE IF ~IsOk(description) THEN description
        ELSE Ok([level |-> index, value |-> value.v, label |-> label.v,
                 description |-> description.v])

\* the loop over enumerate(rc_rating_levels), index counted from 0
RECURSIVE rating_levels_loop(_, _, _, _, _, _)
rating_levels_loop(levels, index, max_maturity, current_maturity, rating_levels, current) ==
    IF index >= Len(levels)
    THEN Ok([rating_levels |-> rating_levels, current_level_index |-> current])
    ELSE LET entry == rating_level_entry(index, Len(levels) - 1, levels[index + 1], max_maturity)
         IN  IF ~IsOk(entry) THEN entry
             ELSE rating_levels_loop(levels, index + 1, max_maturity, current_maturity,
                                     Append(rating_levels, entry.v),
                                     IF entry.v.value = current_maturity THEN index
                                     ELSE current)

\* the try block of extract_parental_control_data
parental_control_try(content, current_maturity) ==
    LET react_context == extract_json(content, "reactContext")
        max_maturity == IF IsOk(react_context) THEN get_path(PathCountryMax, react_context.v)
                        ELSE react_context
        rc_rating_levels == IF IsOk(max_maturity) THEN get_path(PathRatingLevels, react_context.v)
                            ELSE max_maturity
        count == IF IsOk(rc_rating_levels) THEN PyLen(rc_rating_levels.v) ELSE rc_rating_levels
    IN  IF ~IsOk(count) THEN count
        ELSE IF rc_rating_levels.v.kind = "list"
        THEN rating_levels_loop(rc_rating_levels.v.q, 0, max_maturity.v, current_maturity,
                                <<>>, count.v - 1)
        ELSE IF count.v = 0
        THEN Ok([rating_levels |-> <<>>, current_level_index |-> count.v - 1])
        ELSE Raise("TypeError")

extract_parental_control_data(content, current_maturity) ==
    LET r == parental_control_try(content, current_maturity)
    IN  IF r.exc = "KeyError" THEN Raise("WebsiteParsingError")
        ELSE IF ~IsOk(r) THEN r
        ELSE IF r.v.rating_levels = <<>> THEN Raise("WebsiteParsingError")
        ELSE r

--------------------------------------------------------------------------
(* Parental control pages                                                  *)

MaxLevels == 3

LevelLabels == List(<<Map([label |-> Str("7+"), description |-> Str("Ages 7 &amp; up")])>>)

RatingLevel(level) == Map([level |-> level, labels |-> LevelLabels])

LevelEntries ==
    { RatingLevel(Num(10)), RatingLevel(Num(50)), RatingLevel(Str("50")), RatingLevel(Num(70)),
      Map([labels |-> LevelLabels]),
      Map([level |-> Num(50)]) }

LevelLists == UNION { [1..n -> LevelEntries] : n \in 0..MaxLevels }

CountryMaxEdits == { <<Put(PathCountryMax, Num(70))>>, <<Put(PathCountryMax, Num(50))>>, <<>> }

Maturities == { Num(10), Num(50), Num(70), Num(90) }

Page(react_context, falcor_cache) ==
    [reactContext |-> react_context, falcorCache |-> falcor_cache]

ParentalPages ==
    { Page(ApplyEdits(FullReact, m \o <<Put(PathRatingLevels, List(ls))>>), NoBlock) :
        m \in CountryMaxEdits, ls \in LevelLists }
    \cup { Page(FullReact, NoBlock), Page(NoBlock, NoBlock) }

InitParental ==
    /\ FreshStores
    /\ call \in [op : {"extract_parental_control_data"}, phase : {"called"},
                 content : ParentalPages, current_maturity : Maturities]

ExtractParentalControlData ==
    /\ call.op = "extract_parental_control_data" /\ call.phase = "called"
    /\ call' = [op |-> call.op, phase |-> "done", content |-> call.content,
                current_maturity |-> call.current_maturity,
                result |-> extract_parental_control_data(call.content, call.current_maturity)]
    /\ UNCHANGED stores

NextParental == ExtractParentalControlData

SpecParental == InitParental /\ [][NextParental]_vars

\* the rating levels and the country maximum the page of the call declares
PageLevels(content) == get_path(PathRatingLevels, content.reactContext)
PageCountryMax(content) == get_path(PathCountryMax, content.reactContext)

\* a level descriptor with labels, and a level of its own unless it is the last
WellFormedLevel(levels, k) ==
    /\ "labels" \in DOMAIN levels[k].m
    /\ k < Len(levels) => "level" \in DOMAIN levels[k].m

\* the effective value of level k (from 1): the country maximum for the last
EffectiveValue(levels, k, country_max) ==
    IF k = Len(levels) THEN country_max ELSE Num(PyInt(levels[k].m["level"]).v)

\* C9: for a non-empty list of rating levels, country maximum M and current
\* maturity c, the levels come back in input order with index k at position k,
\* each with its own declared value except the last, whose value is M; the
\* current index is one whose effective value equals c when there is one, and
\* the last index otherwise.
C9_ParentalControlLevels ==
    (call.op = "extract_parental_control_data" /\ call.phase = "done"
       /\ call.content.reactContext.kind = "map"
       /\ IsOk(PageLevels(call.content)) /\ IsOk(PageCountryMax(call.content))) =>
        LET levels == PageLevels(call.content).v.q
            M == PageCountryMax(call.content).v
            n == Len(levels)
            matches == { k \in 1..n : EffectiveValue(levels, k, M) = call.current_maturity }
        IN  (n > 0 /\ \A k \in 1..n : WellFormedLevel(levels, k)) =>
              /\ IsOk(call.result)
              /\ Len(call.result.v.rating_levels) = n
              /\ \A k \in 1..n :
                    /\ call.result.v.rating_levels[k].level = k - 1
                    /\ call.result.v.rating_levels[k].value = EffectiveValue(levels, k, M)
              /\ matches # {} => call.result.v.current_level_index + 1 \in matches
              /\ matches = {} => call.result.v.current_level_index = n - 1

\* levels 10, 50 with country maximum 70 and current maturity 70: index 1 is chosen,
\* and the last level's value is 70, not its declared 50
C9_Witness ==
    /\ call.op = "extract_parental_control_data" /\ call.phase = "done"
    /\ IsOk(call.result)
    /\ PageLevels(call.content).v.q = <<RatingLevel(Num(10)), RatingLevel(Str("50"))>>
    /\ call.current_maturity = Num(70)
    /\ call.result.v.current_level_index = 1
    /\ call.result.v.rating_levels[2].value = Num(70)
    /\ call.result.v.rating_levels[1].value = Num(10)

--------------------------------------------------------------------------
(* JSON graph access: paths.jgraph_get, jgraph_get_path, jgraph_get_list   *)

Cell(type, value) == Map(("$type" :> Str(type)) @@ ("value" :> value))
Atom(value) == Cell("atom", value)
RECURSIVE StrList(_)
StrList(q) == IF q = <<>> THEN <<>> ELSE <<Str(Head(q))>> \o StrList(Tail(q))
Ref(path) == Cell("ref", List(StrList(path)))

IsCell(v) == v.kind = "map" /\ "$type" \in DOMAIN v.m /\ "value" \in DOMAIN v.m
IsRef(v) == IsCell(v) /\ v.m["$type"] = Str("ref")

\* the id path of a reference cell, as strings
RefPath(v) == [i \in DOMAIN v.m["value"].q |-> v.m["value"].q[i].s]

\* a walk of plain traversal steps that takes the value of a cell it ends on
RECURSIVE jgraph_walk(_, _)
jgraph_walk(path, data) ==
    LET cell == PyGetItem(data, Head(path))
    IN  IF ~IsOk(cell) THEN cell
        ELSE IF Len(path) = 1 THEN (IF IsCell(cell.v) THEN Ok(cell.v.m["value"]) ELSE cell)
        ELSE jgraph_walk(Tail(path), cell.v)

jgraph_get_path(path, data) == IF path = <<>> THEN Ok(data) ELSE jgraph_walk(path, data)

\* data[key], a reference being resolved in full_data when full_data is given
jgraph_get(key, data, full_data) ==
    LET cell == PyGetItem(data, key)
    IN  IF ~IsOk(cell) THEN cell
        ELSE IF IsRef(cell.v) /\ full_data.kind # "none"
        THEN jgraph_get_path(RefPath(cell.v), full_data)
        ELSE IF IsCell(cell.v) THEN Ok(cell.v.m["value"])
        ELSE cell

INDEX_KEYS == <<"0", "1", "2", "3", "4", "5", "6", "7">>

\* the entries of full_data[key] under the index keys "0", "1", ..., in that order,
\* each reference resolved in full_data
RECURSIVE jgraph_list_from(_, _, _, _)
jgraph_list_from(cells, i, full_data, acc) ==
    IF i > Len(INDEX_KEYS) \/ INDEX_KEYS[i] \notin DOMAIN cells.m THEN Ok(acc)
    ELSE LET item == jgraph_get(INDEX_KEYS[i], cells, full_data)
         IN  IF ~IsOk(item) THEN item
             ELSE jgraph_list_from(cells, i + 1, full_data, Append(acc, item.v))

jgraph_get_list(key, full_data) ==
    LET cells == PyGetItem(full_data, key)
    IN  IF ~IsOk(cells) THEN cells
        ELSE IF cells.v.kind # "map" THEN Raise("TypeError")
        ELSE jgraph_list_from(cells.v, 1, full_data, <<>>)

--------------------------------------------------------------------------
(* The databases and the settings, as the calls of this module use them.   *)
(* st is the state of the stores during a call, log the writes made so far *)
(* and fault the store operation that fails in this call ("none": no one). *)

Stores(fault) ==
    [session |-> session, appconf |-> appconf, profiles |-> profiles, shared |-> shared,
     addon |-> addon, suspended |-> monitor_suspended, log |-> <<>>, fault |-> fault,
     step |-> "start"]

Done(st, v) == [exc |-> "none", st |-> st, v |-> v]
Fail(st, e) == [exc |-> e, st |-> st]
Faulty(st, op) == st.fault = op

Logged(st, entry) == [st EXCEPT !.log = Append(@, entry)]

\* g.LOCAL_DB.set_value(key, value, TABLE_SESSION)
session_set_value(st, key, value) ==
    IF Faulty(st, "set_value") THEN Fail(st, "DatabaseError")
    ELSE Done(Logged([st EXCEPT !.session = DictPut(@, key, value)],
                     [db |-> "session", op |-> "set_value", key |-> key]), None)

\* g.LOCAL_DB.get_value(key, default, table=TABLE_SESSION)
session_get_value(st, key, default) ==
    IF Faulty(st, "get_value") THEN Fail(st, "DatabaseError")
    ELSE Done(st, IF key \in DOMAIN st.session THEN st.session[key] ELSE default)

\* g.LOCAL_DB.set_value(key, value)
local_set_value(st, key, value) ==
    IF Faulty(st, "set_value") THEN Fail(st, "DatabaseError")
    ELSE Done(Logged([st EXCEPT !.appconf = DictPut(@, key, value)],
                     [db |-> "appconf", op |-> "set_value", key |-> key,
                      suspended |-> st.suspended]), None)

\* g.LOCAL_DB.get_value(key, default)
local_get_value(st, key, default) ==
    IF Faulty(st, "get_value") THEN Fail(st, "DatabaseError")
    ELSE Done(st, IF key \in DOMAIN st.appconf THEN st.appconf[key] ELSE default)

\* g.LOCAL_DB.set_profile(guid, is_active, sort_order): update or insert
local_set_profile(st, guid, is_active, sort_order) ==
    IF Faulty(st, "set_profile") THEN Fail(st, "DatabaseError")
    ELSE Done(Logged([st EXCEPT !.profiles = DictPut(@, guid,
                         [is_active |-> is_active, sort_order |-> sort_order,
                          config |-> IF guid \in DOMAIN st.profiles
                                     THEN st.profiles[guid].config ELSE EmptyMap])],
                     [db |-> "local", op |-> "set_profile", guid |-> guid,
                      sort_order |-> sort_order]), None)

\* g.SHARED_DB.set_profile(guid, sort_order)
shared_set_profile(st, guid, sort_order) ==
    IF Faulty(st, "shared_set_profile") THEN Fail(st, "DatabaseError")
    ELSE Done(Logged([st EXCEPT !.shared = DictPut(@, guid, sort_order)],
                     [db |-> "shared", op |-> "set_profile", guid |-> guid,
                      sort_order |-> sort_order]), None)

\* g.LOCAL_DB.set_profile_config(key, value, guid), for all the items of config
local_set_profile_configs(st, config, guid) ==
    IF DOMAIN config # {} /\ Faulty(st, "set_profile_config") THEN Fail(st, "DatabaseError")
    ELSE Done(Logged([st EXCEPT !.profiles[guid].config =
                         [k \in DOMAIN @ \cup DOMAIN config |->
                            IF k \in DOMAIN config THEN config[k] ELSE @[k]]],
                     [db |-> "local", op |-> "set_profile_config", guid |-> guid,
                      keys |-> DOMAIN config]), None)

\* the order in which the database lists guids
GUID_ORDER == <<"A", "B", "C", "D">>

\* g.LOCAL_DB.get_guid_profiles()
local_get_guid_profiles(st) ==
    IF Faulty(st, "get_guid_profiles") THEN Fail(st, "DatabaseError")
    ELSE Done(st, SelectSeq(GUID_ORDER, LAMBDA guid : guid \in DOMAIN st.profiles))

\* g.LOCAL_DB.delete_profile(guid)
local_delete_profile(st, guid) ==
    IF Faulty(st, "delete_profile") THEN Fail(st, "DatabaseError")
    ELSE Done(Logged([st EXCEPT !.profiles = [x \in DOMAIN @ \ {guid} |-> @[x]]],
                     [db |-> "local", op |-> "delete_profile", guid |-> guid]), None)

\* g.SHARED_DB.delete_profile(guid)
shared_delete_profile(st, guid) ==
    IF Faulty(st, "shared_delete_profile") THEN Fail(st, "DatabaseError")
    ELSE Done(Logged([st EXCEPT !.shared = [x \in DOMAIN @ \ {guid} |-> @[x]]],
                     [db |-> "shared", op |-> "delete_profile", guid |-> guid]), None)

ActiveGuids(st) == SelectSeq(GUID_ORDER, LAMBDA guid :
                       guid \in DOMAIN st.profiles /\ Truthy(st.profiles[guid].is_active))

\* g.LOCAL_DB.get_active_profile_guid(): ProfilesMissing when no profile is active
local_get_active_profile_guid(st) ==
    IF Faulty(st, "get_active_profile_guid") THEN Fail(st, "DatabaseError")
    ELSE IF ActiveGuids(st) = <<>> THEN Fail(st, "ProfilesMissing")
    ELSE Done(st, Head(ActiveGuids(st)))

OwnerGuids(st) == SelectSeq(GUID_ORDER, LAMBDA guid :
                      /\ guid \in DOMAIN st.profiles
                      /\ "isAccountOwner" \in DOMAIN st.profiles[guid].config
                      /\ st.profiles[guid].config["isAccountOwner"] = Bool(TRUE))

\* g.LOCAL_DB.get_guid_owner_profile(): ProfilesMissing when no profile is the owner
local_get_guid_owner_profile(st) ==
    IF Faulty(st, "get_guid_owner_profile") THEN Fail(st, "DatabaseError")
    ELSE IF OwnerGuids(st) = <<>> THEN Fail(st, "ProfilesMissing")
    ELSE Done(st, Head(OwnerGuids(st)))

\* g.LOCAL_DB.switch_active_profile(guid): guid is made the one active profile
local_switch_active_profile(st, guid) ==
    IF Faulty(st, "switch_active_profile") THEN Fail(st, "DatabaseError")
    ELSE Done(Logged([st EXCEPT !.profiles =
                         [x \in DOMAIN @ |-> [@[x] EXCEPT !.is_active = Bool(x = guid)]]],
                     [db |-> "local", op |-> "switch_active_profile", guid |-> guid]), None)

\* g.ADDON.setSetting(key, value) and g.ADDON.setSettingBool(key, value)
addon_set_setting(st, op, key, value) ==
    IF Faulty(st, op) THEN Fail(st, "RuntimeError")
    ELSE Done(Logged([st EXCEPT !.addon[key] = value],
                     [db |-> "addon", op |-> op, key |-> key, suspended |-> st.suspended]), None)

\* g.settings_monitor_suspend(is_suspended)
settings_monitor_suspend(st, is_suspended) ==
    Done(Logged([st EXCEPT !.suspended = is_suspended],
                [db |-> "monitor", op |-> "suspend", value |-> is_suspended]), None)

--------------------------------------------------------------------------
(* parse_profiles, _get_avatar, _delete_non_existing_profiles              *)

\* the next statement F runs on the outcome r of the last one, unless it raised
Bind(r, F(_)) == IF r.exc = "none" THEN F(r) ELSE r

AVATAR_SUBPATH == <<"images", "byWidth", "320">>
ICON == Str("special://home/addons/plugin.video.netflix/icon.png")

\* xbmc.convertLanguage(code, xbmc.ENGLISH_NAME)
convertLanguage(code) ==
    CASE code = "en" -> "English"
      [] code = "it" -> "Italian"
      [] code = "de" -> "German"
      [] OTHER -> ""

\* value[:2]
PyPrefix2(v) ==
    CASE v.kind = "str" -> Ok(SubSeq(v.s, 1, IF Len(v.s) < 2 THEN Len(v.s) ELSE 2))
      [] OTHER -> Raise("TypeError")

\* the avatar url found, or the icon of the add-on on KeyError and TypeError
avatar_or_icon(url) == IF url.exc \in {"KeyError", "TypeError"} THEN ICON ELSE url.v

_get_avatar(profile_data, data) ==
    avatar_or_icon(Bind(jgraph_get("avatar", profile_data, data),
                        LAMBDA avatar : jgraph_get_path(AVATAR_SUBPATH, avatar.v)))

\* a sort order that is never advanced
next_sort_order_stuck(sort_order) == sort_order

\* sort_order += 1
next_sort_order(sort_order) == sort_order + 1

\* the items of summary written as profile configuration: isActive popped,
\* language_desc added, profileName decoded
profile_config(summary, language_desc, name) ==
    [k \in (DOMAIN summary \ {"isActive"}) \cup {"language_desc"} |->
        IF k = "language_desc" THEN Str(language_desc)
        ELSE IF k = "profileName" THEN name
        ELSE summary[k]]

\* summary['language'][:2]
language_code(summary) ==
    Bind(PyGetItem(summary, "language"), LAMBDA language : PyPrefix2(language.v))

\* parse_html(value) of the profileName item, when summary has one
decoded_name(summary) ==
    IF "profileName" \in DOMAIN summary.m THEN parse_html(summary.m["profileName"]) ELSE Ok(None)

\* summary['language_desc'] = ... and the loop over the items of summary
write_summary_config(st, summary, guid, code, name) ==
    IF ~IsOk(code) THEN Fail(st, code.exc)
    ELSE IF ~IsOk(name) THEN Fail(st, name.exc)
    ELSE local_set_profile_configs(
             st, profile_config(summary.m, convertLanguage(code.v), name.v), guid)

\* the writes of the loop body for one profile
write_profile(st, summary, guid, is_active, avatar_url, sort_order) ==
    IF ~IsOk(guid) THEN Fail(st, guid.exc)
    ELSE IF ~IsOk(is_active) THEN Fail(st, is_active.exc)
    ELSE Bind(Bind(Bind(Bind(
             local_set_profile(st, guid.v.s, is_active.v, sort_order),
             LAMBDA r : shared_set_profile(r.st, guid.v.s, sort_order)),
             LAMBDA r : write_summary_config(r.st, summary, guid.v.s,
                                             language_code(summary), decoded_name(summary))),
             LAMBDA r : local_set_profile_configs(r.st, [k \in {"avatar"} |-> avatar_url],
                                                  guid.v.s)),
             LAMBDA r : Done(r.st, guid.v.s))

\* the loop body once summary is read
parse_summary(st, summary, avatar_url, sort_order) ==
    IF ~IsOk(summary) THEN Fail(st, summary.exc)
    ELSE write_profile(st, summary.v, PyGetItem(summary.v, "guid"),
                       PyGetItem(summary.v, "isActive"), avatar_url, sort_order)

\* the body of the for loop, for one profile of the list; its value is the guid
parse_one_profile(st, profile_data, data, sort_order) ==
    parse_summary(st, jgraph_get("summary", profile_data, None),
                  _get_avatar(profile_data, data), sort_order)

\* the for loop over the profiles of the list; its value is current_guids
RECURSIVE parse_profiles_loop(_, _, _, _, _, _)
parse_profiles_loop(st, profiles_list, i, data, sort_order, current_guids) ==
    IF i > Len(profiles_list) THEN Done(st, current_guids)
    ELSE Bind(parse_one_profile(st, profiles_list[i], data, sort_order),
              LAMBDA one : parse_profiles_loop(one.st, profiles_list, i + 1, data,
                                               next_sort_order(sort_order),
                                               Append(current_guids, one.v)))

InSeq(x, q) == \E i \in DOMAIN q : q[i] = x

\* no profile is taken as stale
is_non_existing_never(guid, current_guids) == FALSE

\* guid not in current_guids
is_non_existing(guid, current_guids) == ~InSeq(guid, current_guids)

\* the deletion of the profiles of list_guid that are not in current_guids
RECURSIVE delete_loop(_, _, _)
delete_loop(st, list_guid, current_guids) ==
    IF list_guid = <<>> THEN Done(st, None)
    ELSE IF is_non_existing(Head(list_guid), current_guids)
    THEN Bind(Bind(local_delete_profile(st, Head(list_guid)),
                   LAMBDA r : shared_delete_profile(r.st, Head(list_guid))),
              LAMBDA r : delete_loop(r.st, Tail(list_guid), current_guids))
    ELSE delete_loop(st, Tail(list_guid), current_guids)

\* the except ProfilesMissing clause: the owner profile is made the active one
switch_to_owner(active) ==
    IF active.exc # "ProfilesMissing" THEN active
    ELSE Bind(local_get_guid_owner_profile(active.st),
              LAMBDA owner : local_switch_active_profile(owner.st, owner.v))

\* no check that a profile is active
ensure_active_profile_skipped(st) == Done(st, None)

\* "Ensures at least one active profile"
ensure_active_profile(st) == switch_to_owner(local_get_active_profile_guid(st))

clear_autoselect(st) ==
    Bind(Bind(local_set_value(st, "autoselect_profile_guid", Str("")),
              LAMBDA r : addon_set_setting(r.st, "setSetting", "autoselect_profile_name", "")),
         LAMBDA r : addon_set_setting(r.st, "setSettingBool",
                                      "autoselect_profile_enabled", FALSE))

\* "Verify if auto select profile exists"
verify_autoselect(st, current_guids) ==
    Bind(local_get_value(st, "autoselect_profile_guid", Str("")),
         LAMBDA guid : IF Truthy(guid.v) /\ ~InSeq(guid.v.s, current_guids)
                       THEN clear_autoselect(guid.st) ELSE Done(guid.st, None))

clear_library_playback(st) ==
    Bind(local_set_value(st, "library_playback_profile_guid", Str("")),
         LAMBDA r : addon_set_setting(r.st, "setSetting", "library_playback_profile", ""))

\* "Verify if profile for library playback exists"
verify_library_playback(st, current_guids) ==
    Bind(local_get_value(st, "library_playback_profile_guid", None),
         LAMBDA guid : IF Truthy(guid.v) /\ ~InSeq(guid.v.s, current_guids)
                       THEN clear_library_playback(guid.st) ELSE Done(guid.st, None))

_delete_non_existing_profiles(st, current_guids) ==
    Bind(Bind(Bind(Bind(Bind(Bind(
        local_get_guid_profiles(st),
        LAMBDA r : delete_loop(r.st, r.v, current_guids)),
        LAMBDA r : ensure_active_profile(r.st)),
        LAMBDA r : settings_monitor_suspend(r.st, TRUE)),
        LAMBDA r : verify_autoselect(r.st, current_guids)),
        LAMBDA r : verify_library_playback(r.st, current_guids)),
        LAMBDA r : settings_monitor_suspend(r.st, FALSE))

\* the try block of parse_profiles
parse_profiles_try(st, profiles_list, data) ==
    IF profiles_list = <<>> THEN Fail(st, "InvalidProfilesError")
    ELSE Bind(parse_profiles_loop(st, profiles_list, 1, data, 0, <<>>),
              LAMBDA looped : _delete_non_existing_profiles(looped.st, looped.v))

\* except Exception: raise InvalidProfilesError
as_invalid_profiles(r) == IF IsOk(r) THEN r ELSE Fail(r.st, "InvalidProfilesError")

\* parse_profiles once the list of profiles is read
parse_profiles_list(st, profiles_list, data) ==
    IF ~IsOk(profiles_list) THEN Fail(st, profiles_list.exc)
    ELSE as_invalid_profiles(parse_profiles_try(st, profiles_list.v, data))

parse_profiles(st, data) ==
    parse_profiles_list(st, jgraph_get_list("profilesList", data), data)

--------------------------------------------------------------------------
(* falcorCache pages                                                       *)

MaxProfiles == 2

Guids == {"A", "B", "C"}
OWNER_GUID == "A"

ProfileNames == [g \in Guids |->
    CASE g = "A" -> "Ann &amp; Bob" [] g = "B" -> "Kids" [] OTHER -> "Carl"]

ProfileSummary(guid, active) ==
    Atom(Map([guid |-> Str(guid), profileName |-> Str(ProfileNames[guid]),
              isActive |-> Bool(active), isAccountOwner |-> Bool(guid = OWNER_GUID),
              isKids |-> Bool(guid = "B"), language |-> Str("it-IT")]))

\* profile A has an avatar, B an avatar of another shape, C none
ProfileNode(guid, active) ==
    IF guid = "C" THEN Map([summary |-> ProfileSummary(guid, active)])
    ELSE Map([summary |-> ProfileSummary(guid, active),
              avatar |-> Ref(<<"avatars", "nf", guid>>)])

Avatars ==
    Map([nf |-> Map([
        A |-> Map([images |-> Map([byWidth |->
                 Map([k \in {"320"} |-> Atom(Str("https://img.nflx/a320.png"))])])]),
        B |-> Map([images |-> Str("n/a")])])])

\* the index key of position i of a list
IndexOfKey(k) == CHOOSE i \in DOMAIN INDEX_KEYS : INDEX_KEYS[i] = k

\* the cache of a page whose profilesList names the profiles of guids, in that
\* order, the profiles of actives being the active ones
FalcorCache(guids, actives) ==
    Map([profilesList |->
             Map([k \in { INDEX_KEYS[i] : i \in DOMAIN guids } |->
                    Ref(<<"profiles", guids[IndexOfKey(k)]>>)]),
         profiles |->
             Map([g \in { guids[i] : i \in DOMAIN guids } |-> ProfileNode(g, g \in actives)]),
         avatars |-> Avatars,
         loco |-> Ref(<<"locos", "root-1">>),
         locos |-> Map([k \in {"root-1"} |->
                    Map([componentSummary |-> Atom(Map([requestId |-> Str("req-1")]))])])])

\* the lists of up to MaxProfiles profiles, no profile listed twice
GuidLists ==
    { q \in UNION { [1..n -> Guids] : n \in 0..MaxProfiles } :
        \A i, j \in DOMAIN q : q[i] = q[j] => i = j }

\* pages whose profile data changed shape: no list, and a last profile that is
\* not in the cache, has no summary, or has no isActive
ProfileDefects(guids) ==
    {<<>>, <<Del(<<"profilesList">>)>>}
    \cup (IF guids = <<>> THEN {}
          ELSE LET last == guids[Len(guids)]
               IN  { <<Del(<<"profiles", last>>)>>,
                     <<Del(<<"profiles", last, "summary">>)>>,
                     <<Del(<<"profiles", last, "summary", "value", "isActive">>)>> })

\* the caches of the pages that list the profiles of one of lists
CachesOf(lists) ==
    UNION { { ApplyEdits(FalcorCache(guids, actives), d) :
                actives \in SUBSET { guids[i] : i \in DOMAIN guids },
                d \in ProfileDefects(guids) }
            : guids \in lists }

FalcorCaches == CachesOf(GuidLists)

\* the pages fetched while store operations may fail
FaultCaches == CachesOf({<<"A">>, <<"A", "B">>})

\* the profiles the user may pick in the settings; B can leave the account
PickableGuids == {"B"}

\* the store operations that may fail during a call
Faults ==
    {"none", "set_profile", "shared_set_profile", "set_profile_config", "get_guid_profiles",
     "delete_profile", "shared_delete_profile", "get_active_profile_guid",
     "get_guid_owner_profile", "switch_active_profile", "get_value", "set_value",
     "setSetting", "setSettingBool"}

Idle == [op |-> "none", phase |-> "idle"]

InitProfiles == FreshStores /\ call = Idle

\* the stores take the state the call left them in
StoresBecome(st) ==
    /\ session' = st.session
    /\ appconf' = st.appconf
    /\ profiles' = st.profiles
    /\ shared' = st.shared
    /\ addon' = st.addon
    /\ monitor_suspended' = st.suspended

\* the state after parse_profiles ended with outcome r
ParseProfilesEnds(r, data, fault) ==
    /\ StoresBecome(r.st)
    /\ call' = [op |-> "parse_profiles", phase |-> "done", data |-> data,
                fault |-> fault, known |-> DOMAIN profiles, exc |-> r.exc,
                log |-> r.st.log]

ParseProfiles(data, fault) ==
    /\ call.phase = "idle"
    /\ ParseProfilesEnds(parse_profiles(Stores(fault), data), data, fault)

\* the caller takes the outcome of the call
Return ==
    /\ call.phase = "done"
    /\ call' = Idle
    /\ UNCHANGED stores

\* the user picks a known profile for auto-selection
SetAutoselectProfile(guid) ==
    /\ call.phase = "idle"
    /\ guid \in DOMAIN profiles
    /\ appconf' = DictPut(appconf, "autoselect_profile_guid", Str(guid))
    /\ addon' = [addon EXCEPT !.autoselect_profile_name = ProfileNames[guid],
                              !.autoselect_profile_enabled = TRUE]
    /\ UNCHANGED <<session, profiles, shared, monitor_suspended, call>>

\* the user picks a known profile for playback from the library
SetLibraryPlaybackProfile(guid) ==
    /\ call.phase = "idle"
    /\ guid \in DOMAIN profiles
    /\ appconf' = DictPut(appconf, "library_playback_profile_guid", Str(guid))
    /\ addon' = [addon EXCEPT !.library_playback_profile = ProfileNames[guid]]
    /\ UNCHANGED <<session, profiles, shared, monitor_suspended, call>>

NextProfiles ==
    \/ \E data \in FalcorCaches : ParseProfiles(data, "none")
    \/ Return

SpecProfiles == InitProfiles /\ [][NextProfiles]_vars

NextProfilesFaults ==
    \/ \E data \in FaultCaches, fault \in Faults : ParseProfiles(data, fault)
    \/ \E guid \in PickableGuids : SetAutoselectProfile(guid)
    \/ \E guid \in PickableGuids : SetLibraryPlaybackProfile(guid)
    \/ Return

SpecProfilesFaults == InitProfiles /\ [][NextProfilesFaults]_vars

--------------------------------------------------------------------------
(* Properties of parse_profiles                                            *)

ParseProfilesDone == call.phase = "done" /\ call.op = "parse_profiles"
ParseProfilesSucceeded == ParseProfilesDone /\ call.exc = "none"

\* the guids the page lists, in profilesList order
PageGuids(data) ==
    [i \in 1..Cardinality(DOMAIN data.m["profilesList"].m) |->
        RefPath(data.m["profilesList"].m[INDEX_KEYS[i]])[2]]

PageGuidSet(data) == { PageGuids(data)[i] : i \in DOMAIN PageGuids(data) }

\* the listed guids whose summary says isActive
PageActives(data) ==
    { g \in PageGuidSet(data) :
        data.m["profiles"].m[g].m["summary"].m["value"].m["isActive"] = Bool(TRUE) }

\* the set_profile writes of the call to one database, in the order made
SetProfileWrites(db) ==
    SelectSeq(call.log, LAMBDA e : e.db = db /\ e.op = "set_profile")

\* the k-th profile of the list was written once, with sort order k - 1
WritesFollowList(writes, guids) ==
    /\ Len(writes) = Len(guids)
    /\ \A k \in DOMAIN guids :
          writes[k].guid = guids[k] /\ writes[k].sort_order = k - 1

\* C3: after a successful parse_profiles over a list of n profiles the sort
\* orders written are 0..n-1 in profilesList order, one per profile, in the
\* local and in the shared store alike, and both stores hold them
C3_SortOrdersFollowList ==
    ParseProfilesSucceeded =>
        /\ WritesFollowList(SetProfileWrites("local"), PageGuids(call.data))
        /\ WritesFollowList(SetProfileWrites("shared"), PageGuids(call.data))
        /\ \A k \in DOMAIN PageGuids(call.data) :
              /\ profiles[PageGuids(call.data)[k]].sort_order = k - 1
              /\ shared[PageGuids(call.data)[k]] = k - 1

\* a full list parsed over a store that knew its profiles in another order
C3_Witness ==
    /\ ParseProfilesSucceeded
    /\ Len(PageGuids(call.data)) = MaxProfiles
    /\ PageGuids(call.data)[1] # OWNER_GUID
    /\ call.known = PageGuidSet(call.data)

\* C4: after a successful parse_profiles the local store knows exactly the
\* guids of the list: every guid known before and not listed is gone from the
\* local and the shared store, and every listed guid is in both
C4_StaleProfilesDeleted ==
    ParseProfilesSucceeded =>
        /\ DOMAIN profiles = PageGuidSet(call.data)
        /\ \A g \in call.known \ PageGuidSet(call.data) :
              g \notin DOMAIN profiles /\ g \notin DOMAIN shared
        /\ \A g \in PageGuidSet(call.data) :
              g \in DOMAIN profiles /\ g \in DOMAIN shared

\* a profile known before the call is not in the list, another one is
C4_Witness ==
    /\ ParseProfilesSucceeded
    /\ call.known \ PageGuidSet(call.data) # {}
    /\ call.known \cap PageGuidSet(call.data) # {}

\* C5: every failure of parse_profiles is an InvalidProfilesError
C5_OnlyInvalidProfilesError ==
    ParseProfilesDone => call.exc \in {"none", "InvalidProfilesError"}

\* the profiles marked active in the local store
StoredActives == { g \in DOMAIN profiles : profiles[g].is_active = Bool(TRUE) }

\* C6: after a successful parse_profiles some profile of the local store is
\* active, and it is the account owner alone when the list marks none active
C6_SomeProfileActive ==
    ParseProfilesSucceeded =>
        /\ StoredActives # {}
        /\ PageActives(call.data) = {} => StoredActives = {OWNER_GUID}

\* the list marks no profile active and a profile known before was deleted
C6_Witness ==
    /\ ParseProfilesSucceeded
    /\ PageActives(call.data) = {}
    /\ call.known \ PageGuidSet(call.data) # {}
    /\ Cardinality(PageGuidSet(call.data)) > 1

\* the writes that clear a stale preference
ClearingWrites ==
    SelectSeq(call.log, LAMBDA e : e.db \in {"appconf", "addon"})

\* every write that clears a stale preference is made while suspended
C7_ClearedWhileSuspended ==
    ParseProfilesDone =>
        \A i \in DOMAIN ClearingWrites : ClearingWrites[i].suspended

\* C7: on every way out of parse_profiles the suspension of the settings
\* monitor is off
C7_SuspensionSwitchedOff ==
    ParseProfilesDone => ~monitor_suspended

--------------------------------------------------------------------------
(* extract_session_data                                                    *)

\* the statement of extract_session_data that st has got to
Reached(st, step) == [st EXCEPT !.step = step]

\* the outcome r of a call that touches no store, with the stores st
Lift(st, r) == IF IsOk(r) THEN Done(st, r.v) ELSE Fail(st, r.exc)

\* if validate: validate_login(react_context)
validate_if_asked(st, validate, react_context) ==
    IF validate THEN Lift(st, validate_login(react_context)) ELSE Done(st, None)

\* every status but CURRENT_MEMBER is one generic failure
membership_error_generic(status) ==
    IF status # Str("CURRENT_MEMBER") THEN "InvalidMembershipStatusError" ELSE "none"

\* the two checks of user_data.get('membershipStatus')
membership_error(status) ==
    IF status = Str("ANONYMOUS") THEN "InvalidMembershipStatusAnonymous"
    ELSE IF status # Str("CURRENT_MEMBER") THEN "InvalidMembershipStatusError"
    ELSE "none"

\* if update_profiles: parse_profiles(falcor_cache)
update_profiles_if_asked(st, update_profiles, falcor_cache) ==
    IF update_profiles THEN parse_profiles(st, falcor_cache) ELSE Done(st, None)

PathProfileGateState == <<"models", "profileGateState", "data">>

\* the debug message about profileGateState: a state that is not in
\* PROFILE_GATE_STATES is reported by the except clause, which reads the path
\* again
debug_profile_gate_state(st, is_debug_verbose, react_context) ==
    IF is_debug_verbose
    THEN Lift(st, Bind(get_path(PathProfileGateState, react_context), LAMBDA r : Ok(None)))
    ELSE Done(st, None)

\* value[i] for a 0-based index i
PyIndex(v, i) ==
    CASE v.kind = "list" -> IF i < Len(v.q) THEN Ok(v.q[i + 1]) ELSE Raise("IndexError")
      [] v.kind = "str" -> IF i < Len(v.s) THEN Ok(Str(SubSeq(v.s, i + 1, i + 1)))
                           ELSE Raise("IndexError")
      [] v.kind = "map" -> Raise("KeyError")
      [] OTHER -> Raise("TypeError")

\* falcor_cache['loco']['value'][1]
loco_root_of(falcor_cache) ==
    Bind(get_path(<<"loco", "value">>, falcor_cache), LAMBDA r : PyIndex(r.v, 1))

\* falcor_cache['locos'][loco_root]
loco_of(falcor_cache, loco_root) ==
    Bind(PyGetItem(falcor_cache, "locos"),
         LAMBDA locos : IF loco_root.kind = "str" THEN PyGetItem(locos.v, loco_root.s)
                        ELSE IF locos.v.kind = "map" THEN Raise("KeyError")
                        ELSE Raise("TypeError"))

\* 'componentSummary' in loco
has_component_summary(loco) ==
    CASE loco.kind = "map" -> Ok("componentSummary" \in DOMAIN loco.m)
      [] loco.kind = "str" -> Ok(Contains(loco.s, "componentSummary"))
      [] loco.kind = "list" -> Ok(InSeq(Str("componentSummary"), loco.q))
      [] OTHER -> Raise("TypeError")

\* the request id written: component_summary['requestId'], or '' when the
\* profile session is not active
loco_root_requestid(loco, is_profile_session_active) ==
    IF is_profile_session_active
    THEN get_path(<<"componentSummary", "value", "requestId">>, loco)
    ELSE Ok(Str(""))

\* "Extract loco root request id"; its value is is_profile_session_active
save_loco_root_requestid(st, loco, is_profile_session_active) ==
    IF ~IsOk(loco) THEN Fail(st, loco.exc)
    ELSE IF ~IsOk(is_profile_session_active) THEN Fail(st, is_profile_session_active.exc)
    ELSE Bind(Lift(st, loco_root_requestid(loco.v, is_profile_session_active.v)),
              LAMBDA id : Bind(session_set_value(id.st, "loco_root_requestid", id.v),
                               LAMBDA r : Done(r.st, is_profile_session_active.v)))

\* "Extract loco root id" and what follows up to the request id
save_loco_root(st, falcor_cache, loco_root) ==
    IF ~IsOk(loco_root) THEN Fail(st, loco_root.exc)
    ELSE Bind(session_set_value(st, "loco_root_id", loco_root.v),
              LAMBDA r : save_loco_root_requestid(
                             r.st, loco_of(falcor_cache, loco_root.v),
                             Bind(loco_of(falcor_cache, loco_root.v),
                                  LAMBDA loco : has_component_summary(loco.v))))

\* common.generate_android_esn() or user_data['esn']
esn_to_store(android_esn, user_data) ==
    IF Truthy(android_esn) THEN Ok(android_esn) ELSE PyGetItem(Map(user_data), "esn")

\* g.LOCAL_DB.set_value('esn', ..., TABLE_SESSION)
write_esn(st, user_data, android_esn) ==
    Bind(Lift(st, esn_to_store(android_esn, user_data)),
         LAMBDA esn : session_set_value(esn.st, "esn", esn.v))

\* the esn is written whatever the stored one is
save_esn_always(st, user_data, android_esn) == write_esn(st, user_data, android_esn)

\* if not g.LOCAL_DB.get_value('esn', table=TABLE_SESSION): set_value('esn', ...)
save_esn(st, user_data, android_esn) ==
    Bind(session_get_value(st, "esn", None),
         LAMBDA stored : IF Truthy(stored.v) THEN Done(stored.st, None)
                         ELSE write_esn(stored.st, user_data, android_esn))

\* user_data.get('preferredLocale').get('id', 'en-US')
locale_id_of(preferred_locale) ==
    IF preferred_locale.kind # "map" THEN Raise("AttributeError")
    ELSE IF "id" \in DOMAIN preferred_locale.m THEN Ok(preferred_locale.m["id"])
    ELSE Ok(Str("en-US"))

save_locale_id(st, user_data) ==
    Bind(Lift(st, locale_id_of(DictGet(user_data, "preferredLocale"))),
         LAMBDA id : local_set_value(id.st, "locale_id", id.v))

\* "Save api urls": the items of api_data, in the order they were put
RECURSIVE save_api_urls(_, _, _)
save_api_urls(st, api_data, i) ==
    IF i > Len(ApiKeys) THEN Done(st, None)
    ELSE IF ApiKeys[i] \in DOMAIN api_data
    THEN Bind(session_set_value(st, ApiKeys[i], api_data[ApiKeys[i]]),
              LAMBDA r : save_api_urls(r.st, api_data, i + 1))
    ELSE save_api_urls(st, api_data, i + 1)

\* "Save only some info of the current profile from user data" to the return
save_session(st, user_data, api_data, android_esn, is_profile_session_active) ==
    Bind(Bind(Bind(Bind(
        session_set_value(st, "build_identifier", DictGet(user_data, "BUILD_IDENTIFIER")),
        LAMBDA r : save_esn(r.st, user_data, android_esn)),
        LAMBDA r : save_locale_id(r.st, user_data)),
        LAMBDA r : save_api_urls(r.st, api_data, 1)),
        LAMBDA r : Done(r.st, Map(DictPut(api_data, "is_profile_session_active",
                                          Bool(is_profile_session_active)))))

\* extract_session_data from the parsing of the profiles on
session_of_falcor_cache(st, user_data, api_data, falcor_cache, react_context, update_profiles, env) ==
    IF ~IsOk(falcor_cache) THEN Fail(st, falcor_cache.exc)
    ELSE Bind(Bind(Bind(
        update_profiles_if_asked(Reached(st, "parse_profiles"), update_profiles, falcor_cache.v),
        LAMBDA r : debug_profile_gate_state(Reached(r.st, "debug"), env.is_debug_verbose,
                                            react_context)),
        LAMBDA r : save_loco_root(Reached(r.st, "loco"), falcor_cache.v,
                                  loco_root_of(falcor_cache.v))),
        LAMBDA active : save_session(Reached(active.st, "save"), user_data, api_data,
                                     env.android_esn, active.v))

\* extract_session_data from the extraction of the falcorCache on
session_of_api_data(st, user_data, api_data, content, react_context, update_profiles, env) ==
    IF ~IsOk(api_data) THEN Fail(st, api_data.exc)
    ELSE session_of_falcor_cache(Reached(st, "falcorCache"), user_data, api_data.v,
                                 extract_json(content, "falcorCache"), react_context,
                                 update_profiles, env)

\* extract_session_data from the checks of the membership status on
session_of_user_data(st, user_data, content, react_context, update_profiles, env) ==
    IF ~IsOk(user_data) THEN Fail(st, user_data.exc)
    ELSE IF membership_error(DictGet(user_data.v, "membershipStatus")) # "none"
    THEN Fail(Reached(st, "membershipStatus"),
              membership_error(DictGet(user_data.v, "membershipStatus")))
    ELSE session_of_api_data(Reached(st, "extract_api_data"), user_data.v,
                             extract_api_data(react_context), content, react_context,
                             update_profiles, env)

\* extract_session_data once the reactContext is extracted
session_of_react_context(st, react_context, content, validate, update_profiles, env) ==
    IF ~IsOk(react_context) THEN Fail(st, react_context.exc)
    ELSE Bind(validate_if_asked(Reached(st, "validate_login"), validate, react_context.v),
              LAMBDA r : session_of_user_data(Reached(r.st, "extract_userdata"),
                                              extract_userdata(react_context.v), content,
                                              react_context.v, update_profiles, env))

\* env: what common.is_debug_verbose() and common.generate_android_esn() return
extract_session_data(st, content, validate, update_profiles, env) ==
    session_of_react_context(st, extract_json(content, "reactContext"), content, validate,
                             update_profiles, env)

--------------------------------------------------------------------------
(* Pages and calls of extract_session_data                                 *)

\* pages with a login error code, with user data of another shape, or neither
ShapeEdits ==
    { <<>>,
      <<Put(PathFlowCode, Str("incorrect_password"))>>,
      <<Put(<<"models", "userInfo", "data">>, Str("n/a"))>> }

\* pages that miss what is read after the membership checks, one with an
\* empty esn and one without the API urls of the player
LateEdits ==
    { <<Del(<<"models", "memberContext", "data", "geo", "preferredLocale">>)>>,
      <<Del(<<"models", "esnGeneratorModel", "data", "esn">>)>>,
      <<Del(<<"models", "profileGateState">>)>>,
      <<Put(PathProfileGateState, Num(99))>>,
      <<Put(<<"models", "esnGeneratorModel", "data", "esn">>, Str(""))>>,
      <<Del(<<"models", "playerModel">>)>> }

\* the pages that differ in what is read up to the extraction of the API urls
SessionContexts ==
    { ApplyEdits(FullReact, a \o s \o x) :
        a \in AuthEdits, s \in StatusEdits, x \in ShapeEdits }

\* the pages of a member that differ in what is read later
LateContexts == { ApplyEdits(FullReact, x) : x \in LateEdits \cup {<<>>} }

SessionCache == FalcorCache(<<"A", "B">>, {"A"})

\* the cache of a member page, of one whose profile session has expired, of
\* pages that miss the loco reference or the list of profiles, and no cache
SessionCaches ==
    { SessionCache,
      ApplyEdits(SessionCache, <<Del(<<"locos", "root-1", "componentSummary">>)>>),
      ApplyEdits(SessionCache, <<Del(<<"loco">>)>>),
      ApplyEdits(SessionCache, <<Del(<<"profilesList">>)>>),
      NoBlock }

SessionPages ==
    { Page(react_context, SessionCache) : react_context \in SessionContexts }
    \cup { Page(ApplyEdits(FullReact, a), NoBlock) : a \in AuthEdits }
    \cup { Page(react_context, falcor_cache) :
             react_context \in LateContexts, falcor_cache \in SessionCaches }
    \cup { Page(NoBlock, SessionCache) }

ANDROID_ESN == Str("NFANDROID1-PRV-P-GENERATED")

Envs == [is_debug_verbose : BOOLEAN, android_esn : {None, ANDROID_ESN}]

InitSession == FreshStores /\ call = Idle

\* the state after extract_session_data ended with outcome r
ExtractSessionDataEnds(r, content, validate, update_profiles, env) ==
    /\ StoresBecome(r.st)
    /\ call' = [op |-> "extract_session_data", phase |-> "done", content |-> content,
                validate |-> validate, update_profiles |-> update_profiles, env |-> env,
                before |-> stores, exc |-> r.exc, step |-> r.st.step, log |-> r.st.log]

ExtractSessionData(content, validate, update_profiles, env) ==
    /\ call.phase = "idle"
    /\ ExtractSessionDataEnds(
           extract_session_data(Stores("none"), content, validate, update_profiles, env),
           content, validate, update_profiles, env)

NextSession ==
    \/ \E content \in SessionPages, validate \in BOOLEAN, update_profiles \in BOOLEAN,
          env \in Envs : ExtractSessionData(content, validate, update_profiles, env)
    \/ Return

SpecSession == InitSession /\ [][NextSession]_vars

--------------------------------------------------------------------------
(* Properties of extract_session_data                                      *)

SessionDone ==
    /\ call.phase = "done" /\ call.op = "extract_session_data"
    /\ call.content.reactContext.kind = "map"

\* no store was written by the call
NoStoreWrite == call.log = <<>> /\ call.before = stores

\* what the page has at a path: the node, or the way the traversal fails
PageNode(path) == get_path(path, call.content.reactContext)

\* the page has no authURL, or one whose length is not 42
BadAuthURL ==
    \/ ~IsOk(PageNode(PathAuthURL))
    \/ /\ PageNode(PathAuthURL).v.kind = "str"
       /\ Len(PageNode(PathAuthURL).v.s) # AUTH_URL_LENGTH

\* the membership status of the page, None when it has none
PageStatus == IF IsOk(PageNode(PathStatus)) THEN PageNode(PathStatus).v ELSE None

\* login validation is not requested, or the page has no error code
ValidationPasses == ~call.validate \/ PageNode(PathErrorCode).exc = "KeyError"

\* no declared path of the list descends into a node that is not a mapping
Traversable(paths) ==
    \A i \in DOMAIN paths : PageNode(paths[i]).exc \in {"none", "KeyError"}

MembershipErrors == {"InvalidMembershipStatusAnonymous", "InvalidMembershipStatusError"}

\* the call got to the extraction of the API urls
ReachedApiData ==
    call.step \notin {"start", "validate_login", "extract_userdata", "membershipStatus"}

\* the call ended before the membership checks, with the failure of the login
\* validation or of the traversal of the user data paths
EndsBeforeMembership ==
    /\ ~ReachedApiData
    /\ NoStoreWrite
    /\ call.exc \notin MembershipErrors \cup {"none", "InvalidAuthURLError"}
    /\ ~ValidationPasses => call.step = "validate_login"
    /\ ValidationPasses => call.step = "extract_userdata" /\ call.exc = "TypeError"

\* every page with a bad authURL fails with InvalidAuthURLError, nothing written
C1_Original ==
    (SessionDone /\ BadAuthURL) => call.exc = "InvalidAuthURLError" /\ NoStoreWrite

\* C1: a page with no authURL or one whose length is not 42 fails with no
\* store write, whatever validate and update_profiles are; the failure is
\* InvalidAuthURLError once login validation, when requested, has passed, the
\* declared paths are traversable and the status is CURRENT_MEMBER, and the
\* failure of the earlier step otherwise
C1_BadAuthURLFailsBeforeWrites ==
    (SessionDone /\ BadAuthURL) =>
        /\ call.exc # "none"
        /\ NoStoreWrite
        /\ IF ~(ValidationPasses /\ Traversable(InfoPaths)) THEN EndsBeforeMembership
           ELSE IF PageStatus # Str("CURRENT_MEMBER") THEN call.exc \in MembershipErrors
           ELSE IF ~Traversable(ApiPaths) THEN call.exc = "TypeError"
           ELSE call.exc = "InvalidAuthURLError"

\* a member page with a short authURL, fetched with both options on over
\* stores that an earlier call filled
C1_Witness ==
    /\ SessionDone
    /\ BadAuthURL
    /\ IsOk(PageNode(PathAuthURL))
    /\ call.exc = "InvalidAuthURLError"
    /\ call.validate /\ call.update_profiles
    /\ DOMAIN session # {} /\ DOMAIN profiles # {}

\* the outcome of the two membership checks
MembershipChecked ==
    /\ PageStatus = Str("ANONYMOUS") =>
          call.exc = "InvalidMembershipStatusAnonymous" /\ NoStoreWrite
    /\ PageStatus \notin {Str("ANONYMOUS"), Str("CURRENT_MEMBER")} =>
          call.exc = "InvalidMembershipStatusError" /\ NoStoreWrite
    /\ ReachedApiData <=> PageStatus = Str("CURRENT_MEMBER")

\* the membership status alone decides the outcome
C2_Original == SessionDone => MembershipChecked

\* C2: once login validation, when requested, has passed and the user data
\* paths are traversable, ANONYMOUS fails with
\* InvalidMembershipStatusAnonymous, every other status but CURRENT_MEMBER
\* (an absent one too) with InvalidMembershipStatusError, both with no store
\* write, and only CURRENT_MEMBER gets to the extraction of the API urls;
\* otherwise the call ends earlier, with no store write either
C2_MembershipStatusChecked ==
    SessionDone =>
        IF ValidationPasses /\ Traversable(InfoPaths) THEN MembershipChecked
        ELSE EndsBeforeMembership

\* an ANONYMOUS page fetched with validation on over filled stores
C2_Witness ==
    /\ SessionDone
    /\ PageStatus = Str("ANONYMOUS")
    /\ call.exc = "InvalidMembershipStatusAnonymous"
    /\ call.validate
    /\ DOMAIN session # {}

\* the call wrote key to the store db
Wrote(db, key) ==
    \E i \in DOMAIN call.log :
        call.log[i].db = db /\ call.log[i].op = "set_value" /\ call.log[i].key = key

\* the esn the session store held when the call began, None when it held none
StoredEsnBefore == DictGet(call.before[1], "esn")

\* a stored esn is kept and not written again
StoredEsnKept ==
    Truthy(StoredEsnBefore) =>
        ~Wrote("session", "esn") /\ session["esn"] = StoredEsnBefore

\* with no esn stored, a successful call stores the one of the device
\* generator, or the one of the page when the generator gives none
MissingEsnWritten ==
    ~Truthy(StoredEsnBefore) =>
        /\ Wrote("session", "esn")
        /\ session["esn"] = IF Truthy(call.env.android_esn) THEN call.env.android_esn
                            ELSE PageNode(<<"models", "esnGeneratorModel", "data", "esn">>).v

\* the build identifier, the loco ids and the locale id are written
FieldsRewritten ==
    /\ \A key \in {"build_identifier", "loco_root_id", "loco_root_requestid"} :
          Wrote("session", key)
    /\ Wrote("appconf", "locale_id")

\* every API url is written, whatever the page holds
C11_Original ==
    (SessionDone /\ call.exc = "none") =>
        /\ StoredEsnKept /\ MissingEsnWritten /\ FieldsRewritten
        /\ \A i \in DOMAIN ApiKeys : Wrote("session", ApiKeys[i])

\* C11: over any sequence of calls a stored, non-empty esn is never written
\* again, on any way out of the call, whatever esn the page or the device
\* generator supplies; a successful call writes the esn when none is stored,
\* writes build_identifier, the loco ids and locale_id again, and writes
\* again the API urls that the page holds, leaving the others as stored
C11_StoredEsnNotOverwritten ==
    SessionDone =>
        /\ StoredEsnKept
        /\ call.exc = "none" =>
              /\ MissingEsnWritten /\ FieldsRewritten
              /\ \A i \in DOMAIN ApiKeys :
                    IF IsOk(PageNode(ApiPaths[i]))
                    THEN /\ Wrote("session", ApiKeys[i])
                         /\ session[ApiKeys[i]] = PageNode(ApiPaths[i]).v
                    ELSE /\ ~Wrote("session", ApiKeys[i])
                         /\ DictGet(session, ApiKeys[i]) = DictGet(call.before[1], ApiKeys[i])

\* a successful call over a stored esn, with another esn from the generator
C11_Witness ==
    /\ SessionDone
    /\ call.exc = "none"
    /\ Truthy(StoredEsnBefore)
    /\ call.env.android_esn = ANDROID_ESN
    /\ StoredEsnBefore # ANDROID_ESN
    /\ session["esn"] = StoredEsnBefore

====
